---- MODULE Spec2Model ----
(***************************************************************************)
(* Component verification of MVI_GUI_Triger:                               *)
(*   component_definition.py   ComponentDefinitionManager (the store)      *)
(*   mvi_component_integration.py   MVIComponentIntegration (the matcher,  *)
(*                                  the verdict, process_mvi_result)       *)
(*                                                                         *)
(* Conventions of the translation                                          *)
(*   - a Python str is a sequence of one-character strings, so that        *)
(*     str.lower() and the `in` containment test are computed;             *)
(*   - Python list indices are 0-based, sequences here are 1-based: the    *)
(*     detection index idx of the code is idx + 1 here;                    *)
(*   - None is the record None where a dict may stand and 0 where a list   *)
(*     index may stand (no 1-based index is 0);                            *)
(*   - a float that the code compares is kept as an exact rational         *)
(*     [n, d] (an IoU), or by the integer it is a monotone function of     *)
(*     (a centre distance d is kept as q = (2 d)^2, centres being          *)
(*     half-integers); a confidence is kept in hundredths;                 *)
(*   - a float that the code returns after arithmetic whose rounding       *)
(*     shows (found_percentage) is kept as the binary64 value itself,      *)
(*     significand bits and exponent, with IEEE rounding;                  *)
(*   - an exception that leaves a function is the value of its `raised`    *)
(*     slot, "" when it returned.                                          *)
(***************************************************************************)
EXTENDS Integers, Sequences, FiniteSets, TLC

VARIABLES
    products,                   \* table products, rows in id order
    component_definitions,      \* table component_definitions, rows in id order
    ret,                        \* what the last operation returned
    pc,                         \* position of the caller
    product_id,                 \* argument of the last process_mvi_result
    expected_components,        \* the expected list of the current call
    mvi_detections,             \* the detection list of the current call
    matching_results,           \* results of _match_components
    matched_idxs,               \* matched_idx of each loop iteration (NoIndex if no match)
    matched_detection_indices,  \* the set of consumed detection indices at loop exit
    analysis,                   \* what _analyze_results returned
    observed,                   \* what a caller kept of an earlier _match_components call
    call_args,                  \* the arguments of the last direct call
    sqlite_sequence,            \* table sqlite_sequence: the largest id each table has given
    images                      \* the image objects alive: the caller's frame first, then the
                                \* annotated image of the last call; a reference is an index

vars == <<products, component_definitions, ret, pc, product_id, expected_components,
          mvi_detections, matching_results, matched_idxs,
          matched_detection_indices, analysis, observed, call_args,
          sqlite_sequence, images>>

None == [None |-> TRUE]

\* an image is the list of the cv2 drawing calls made on it since it was
\* captured; Frame is the captured frame, nothing drawn on it
Frame == <<>>

\* sqlite_sequence before any row is inserted
NoSequence == [products |-> 0, component_definitions |-> 0]
NoIndex == 0

\* ------------------------------------------------------------------ bounds
MaxExpected == 2       \* expected components per product / per call
MaxDetections == 2     \* detections per call
MaxCoord == 2          \* largest coordinate and size of a box handed to _calculate_iou
MaxVerdictExpected == 3 \* expected components per call when the verdict is examined
MaxProducts == 2       \* products inserted over the life of the store
MaxStoreComponents == 3 \* components inserted over the life of the store alone

\* ------------------------------------------------------------------ strings
\* one character of str.lower()
LowerChar(c) ==
    CASE c = "S" -> "s"
      [] c = "C" -> "c"
      [] c = "X" -> "x"
      [] OTHER -> c

lower(s) == [i \in 1..Len(s) |-> LowerChar(s[i])]

\* Python `a in b` for two str
IsSubstring(a, b) ==
    \E i \in 0..(Len(b) - Len(a)) : SubSeq(b, i + 1, i + Len(a)) = a

\* decimal digits of a non-negative int, as str(n) gives them
RECURSIVE IntToStr(_)
IntToStr(n) ==
    LET digit == <<"0", "1", "2", "3", "4", "5", "6", "7", "8", "9">>[(n % 10) + 1]
    IN  IF n < 10 THEN <<digit>> ELSE IntToStr(n \div 10) \o <<digit>>

\* sep.join(names), names being a list of str
RECURSIVE Join(_, _)
Join(sep, names) ==
    IF names = <<>> THEN <<>>
    ELSE IF Len(names) = 1 THEN names[1]
    ELSE names[1] \o sep \o Join(sep, Tail(names))

\* ------------------------------------------------------------------ geometry
Max(a, b) == IF a >= b THEN a ELSE b
Min(a, b) == IF a <= b THEN a ELSE b

\* (cx, cy) = (x + width/2, y + height/2), kept doubled: (2 cx, 2 cy)
_calculate_center(bbox) ==
    <<2 * bbox.x + bbox.width, 2 * bbox.y + bbox.height>>

\* sqrt(dx^2 + dy^2) of two centres, kept as q = (2 distance)^2
_calculate_distance(point1, point2) ==
    (point1[1] - point2[1]) * (point1[1] - point2[1])
      + (point1[2] - point2[2]) * (point1[2] - point2[2])

\* x_inter_max - x_inter_min and y_inter_max - y_inter_min
InterWidth(bbox1, bbox2) ==
    Min(bbox1.x + bbox1.width, bbox2.x + bbox2.width) - Max(bbox1.x, bbox2.x)

InterHeight(bbox1, bbox2) ==
    Min(bbox1.y + bbox1.height, bbox2.y + bbox2.height) - Max(bbox1.y, bbox2.y)

\* _calculate_iou whose union is the sum of the two areas
_calculate_iou_sum(bbox1, bbox2) ==
    LET inter_area == InterWidth(bbox1, bbox2) * InterHeight(bbox1, bbox2)
        union_area == bbox1.width * bbox1.height + bbox2.width * bbox2.height
    IN  IF InterWidth(bbox1, bbox2) <= 0 \/ InterHeight(bbox1, bbox2) <= 0
        THEN [n |-> 0, d |-> 1]
        ELSE IF union_area > 0 THEN [n |-> inter_area, d |-> union_area]
        ELSE [n |-> 0, d |-> 1]

\* _calculate_iou that divides by the area of the first box
_calculate_iou_first(bbox1, bbox2) ==
    LET inter_area == InterWidth(bbox1, bbox2) * InterHeight(bbox1, bbox2)
        bbox1_area == bbox1.width * bbox1.height
    IN  IF InterWidth(bbox1, bbox2) <= 0 \/ InterHeight(bbox1, bbox2) <= 0
        THEN [n |-> 0, d |-> 1]
        ELSE IF bbox1_area > 0 THEN [n |-> inter_area, d |-> bbox1_area]
        ELSE [n |-> 0, d |-> 1]

\* _calculate_iou without the early return for an empty intersection
_calculate_iou_unguarded(bbox1, bbox2) ==
    LET inter_area == InterWidth(bbox1, bbox2) * InterHeight(bbox1, bbox2)
        union_area == bbox1.width * bbox1.height + bbox2.width * bbox2.height
                          - inter_area
    IN  IF union_area > 0 THEN [n |-> inter_area, d |-> union_area]
        ELSE [n |-> 0, d |-> 1]

\* inter_area / union_area as the rational [n, d]; 0.0 is [n |-> 0, d |-> 1]
_calculate_iou(bbox1, bbox2) ==
    LET x1_min == bbox1.x
        y1_min == bbox1.y
        x1_max == bbox1.x + bbox1.width
        y1_max == bbox1.y + bbox1.height
        x2_min == bbox2.x
        y2_min == bbox2.y
        x2_max == bbox2.x + bbox2.width
        y2_max == bbox2.y + bbox2.height
        x_inter_min == Max(x1_min, x2_min)
        y_inter_min == Max(y1_min, y2_min)
        x_inter_max == Min(x1_max, x2_max)
        y_inter_max == Min(y1_max, y2_max)
        inter_area == (x_inter_max - x_inter_min) * (y_inter_max - y_inter_min)
        bbox1_area == bbox1.width * bbox1.height
        bbox2_area == bbox2.width * bbox2.height
        union_area == bbox1_area + bbox2_area - inter_area
    IN  IF x_inter_max <= x_inter_min \/ y_inter_max <= y_inter_min
        THEN [n |-> 0, d |-> 1]
        ELSE IF union_area > 0 THEN [n |-> inter_area, d |-> union_area]
        ELSE [n |-> 0, d |-> 1]

\* ------------------------------------------------------------------ dicts
\* dict.get(key, default)
Get(dict, key, default) == IF key \in DOMAIN dict THEN dict[key] ELSE default

\* ------------------------------------------------------------------ scores
\* best_score holds either 0.0, an IoU or 1/(distance + 1):
\*   "zero"  0.0
\*   "iou"   n / d                 (inter_area / union_area)
\*   "dist"  1 / (sqrt(n)/2 + 1)   (n = (2 distance)^2)
ZeroScore == [k |-> "zero", n |-> 0, d |-> 1]
IouScore(iou) == [k |-> "iou", n |-> iou.n, d |-> iou.d]
DistScore(q) == [k |-> "dist", n |-> q, d |-> 1]

\* ScoreGT taking the centre distance itself as the score of the fallback
ScoreGT_farther(a, b) ==
    CASE a.k = "zero" -> FALSE
      [] b.k = "zero" -> IF a.k = "iou" THEN a.n > 0 ELSE TRUE
      [] a.k = "iou" /\ b.k = "iou" -> a.n * b.d > b.n * a.d
      [] a.k = "dist" /\ b.k = "dist" -> a.n > b.n
      [] a.k = "iou" /\ b.k = "dist" ->
            a.n * a.n * b.n > 4 * (a.d - a.n) * (a.d - a.n)
      [] OTHER ->
            4 * (b.d - b.n) * (b.d - b.n) > b.n * b.n * a.n

\* ScoreGT with >= for >: a candidate of the same score replaces the best
ScoreGT_or_equal(a, b) ==
    CASE a.k = "zero" -> FALSE
      [] b.k = "zero" -> IF a.k = "iou" THEN a.n > 0 ELSE TRUE
      [] a.k = "iou" /\ b.k = "iou" -> a.n * b.d >= b.n * a.d
      [] a.k = "dist" /\ b.k = "dist" -> a.n <= b.n
      [] a.k = "iou" /\ b.k = "dist" ->
            a.n * a.n * b.n >= 4 * (a.d - a.n) * (a.d - a.n)
      [] OTHER ->
            4 * (b.d - b.n) * (b.d - b.n) >= b.n * b.n * a.n

\* the float comparison a > b of two scores, in exact arithmetic:
\*   I/U > 1/(dist+1)  <=>  I*sqrt(q) > 2(U-I)  <=>  I^2 q > 4 (U-I)^2
ScoreGT(a, b) ==
    CASE a.k = "zero" -> FALSE
      [] b.k = "zero" -> IF a.k = "iou" THEN a.n > 0 ELSE TRUE
      [] a.k = "iou" /\ b.k = "iou" -> a.n * b.d > b.n * a.d
      [] a.k = "dist" /\ b.k = "dist" -> a.n < b.n
      [] a.k = "iou" /\ b.k = "dist" ->
            a.n * a.n * b.n > 4 * (a.d - a.n) * (a.d - a.n)
      [] OTHER ->
            4 * (b.d - b.n) * (b.d - b.n) > b.n * b.n * a.n

\* min_iou = 0.05
min_iou == [n |-> 5, d |-> 100]

\* iou > min_iou
IouAboveMin(iou) == iou.n * min_iou.d > min_iou.n * iou.d

\* distance <= tolerance, distance kept as q = (2 distance)^2
DistanceWithin(q, tolerance) == tolerance >= 0 /\ q <= 4 * tolerance * tolerance

\* expected.get("tolerance", 50)
DefaultTolerance == 50

\* is_match that also asks for the expected component's min_confidence
is_match_confident(expected, detection) ==
    /\ \/ IsSubstring(lower(expected.name), lower(detection.class))
       \/ IsSubstring(lower(detection.class), lower(expected.name))
       \/ lower(expected.name) = lower(detection.class)
    /\ detection.confidence >= Get(expected, "min_confidence", 0)

\* is_match without the partial match
is_match_exact(expected, detection) ==
    lower(expected.name) = lower(detection.class)

\* the class test of one detection (case insensitive + partial match)
\* is_match that passes over a detection without a class label
is_match_labelled(expected, detection) ==
    LET detected_class == lower(detection.class)
        expected_class == lower(expected.name)
    IN  /\ detected_class # <<>>
        /\ \/ IsSubstring(expected_class, detected_class)
           \/ IsSubstring(detected_class, expected_class)
           \/ expected_class = detected_class

is_match(expected, detection) ==
    LET detected_class == lower(detection.class)
        expected_class == lower(expected.name)
    IN  \/ IsSubstring(expected_class, detected_class)
        \/ IsSubstring(detected_class, expected_class)
        \/ expected_class = detected_class

\* ------------------------------------------------------------------ matcher
\* the keys _calculate_iou and _calculate_center read from a box
BboxKeys == {"x", "y", "width", "height"}

\* the exception one iteration of the loop raises on a detection it does not
\* skip, "" when it raises none: detection["class"] is read first, then
\* detection['confidence'] (by the debug print, before the class test), and
\* the box only when the class rule holds
RaisedBy(expected, detection) ==
    IF "class" \notin DOMAIN detection THEN "KeyError"
    ELSE IF "confidence" \notin DOMAIN detection THEN "KeyError"
    ELSE IF ~is_match(expected, detection) THEN ""
    ELSE IF "bbox" \notin DOMAIN detection THEN "KeyError"
    ELSE IF ~(BboxKeys \subseteq DOMAIN detection.bbox) THEN "KeyError"
    ELSE IF Get(detection.bbox, "non_numeric", {}) # {} THEN "TypeError"
    ELSE ""

\* the locals of _find_matching_object before its loop
NoBest ==
    [best_match |-> None, best_match_idx |-> NoIndex, best_score |-> ZeroScore,
     raised |-> ""]

\* FindLoop that leaves the loop at the first detection of another class
\* (`break` where the code has `continue`)
RECURSIVE FindLoop_break(_, _, _, _, _)
FindLoop_break(expected, detections, matched_indices, idx, best) ==
    IF idx > Len(detections) \/ best.raised # "" THEN best
    ELSE IF idx \in matched_indices
    THEN FindLoop_break(expected, detections, matched_indices, idx + 1, best)
    ELSE IF RaisedBy(expected, detections[idx]) # ""
    THEN [best EXCEPT !.raised = RaisedBy(expected, detections[idx])]
    ELSE IF ~is_match(expected, detections[idx]) THEN best
    ELSE
      LET detection == detections[idx]
          iou == _calculate_iou(expected.roi, detection.bbox)
          distance == _calculate_distance(_calculate_center(expected.roi),
                                          _calculate_center(detection.bbox))
          taken(s) == [best EXCEPT !.best_match = detection,
                                   !.best_match_idx = idx, !.best_score = s]
          next ==
            IF IouAboveMin(iou)
            THEN IF ScoreGT(IouScore(iou), best.best_score)
                 THEN taken(IouScore(iou)) ELSE best
            ELSE IF DistanceWithin(distance, Get(expected, "tolerance", DefaultTolerance))
                 THEN IF ScoreGT(DistScore(distance), best.best_score)
                      THEN taken(DistScore(distance)) ELSE best
            ELSE best
      IN  FindLoop_break(expected, detections, matched_indices, idx + 1, next)

\* FindLoop that forgets the best match so far at a detection of the class
\* that is neither over min_iou nor within the tolerance
RECURSIVE FindLoop_reset(_, _, _, _, _)
FindLoop_reset(expected, detections, matched_indices, idx, best) ==
    IF idx > Len(detections) \/ best.raised # "" THEN best
    ELSE
      LET detection == detections[idx]
          expected_center == _calculate_center(expected.roi)
          tolerance == Get(expected, "tolerance", DefaultTolerance)
          iou == _calculate_iou(expected.roi, detection.bbox)
          detected_center == _calculate_center(detection.bbox)
          distance == _calculate_distance(expected_center, detected_center)
          score == DistScore(distance)
          taken(s) == [best EXCEPT !.best_match = detection,
                                   !.best_match_idx = idx, !.best_score = s]
          next ==
            IF idx \in matched_indices THEN best
            ELSE IF RaisedBy(expected, detection) # ""
                 THEN [best EXCEPT !.raised = RaisedBy(expected, detection)]
            ELSE IF ~is_match(expected, detection) THEN best
            ELSE IF IouAboveMin(iou)
                 THEN IF ScoreGT(IouScore(iou), best.best_score)
                      THEN taken(IouScore(iou)) ELSE best
            ELSE IF DistanceWithin(distance, tolerance)
                 THEN IF ScoreGT(score, best.best_score) THEN taken(score) ELSE best
            ELSE NoBest
      IN  FindLoop_reset(expected, detections, matched_indices, idx + 1, next)

\* the body of `for idx, detection in enumerate(detections)`, from idx on;
\* best = (best_match, best_match_idx, best_score) and the exception that
\* left the loop, if any
RECURSIVE FindLoop(_, _, _, _, _)
FindLoop(expected, detections, matched_indices, idx, best) ==
    IF idx > Len(detections) \/ best.raised # "" THEN best
    ELSE
      LET detection == detections[idx]
          expected_center == _calculate_center(expected.roi)
          tolerance == Get(expected, "tolerance", DefaultTolerance)
          iou == _calculate_iou(expected.roi, detection.bbox)
          detected_center == _calculate_center(detection.bbox)
          distance == _calculate_distance(expected_center, detected_center)
          score == DistScore(distance)
          taken(s) == [best EXCEPT !.best_match = detection,
                                   !.best_match_idx = idx, !.best_score = s]
          next ==
            IF idx \in matched_indices THEN best
            ELSE IF RaisedBy(expected, detection) # ""
                 THEN [best EXCEPT !.raised = RaisedBy(expected, detection)]
            ELSE IF ~is_match(expected, detection) THEN best
            ELSE IF IouAboveMin(iou)
                 THEN IF ScoreGT(IouScore(iou), best.best_score)
                      THEN taken(IouScore(iou)) ELSE best
            ELSE IF DistanceWithin(distance, tolerance)
                 THEN IF ScoreGT(score, best.best_score) THEN taken(score) ELSE best
            ELSE best
      IN  FindLoop(expected, detections, matched_indices, idx + 1, next)

\* _find_matching_object that takes the first unmatched detection of the
\* class, wherever it is
_find_matching_object_first(expected, detections, matched_indices) ==
    LET candidates == {idx \in (1..Len(detections)) \ matched_indices :
                           is_match(expected, detections[idx])}
        first == CHOOSE idx \in candidates : \A other \in candidates : idx <= other
    IN  IF candidates = {} THEN <<None, NoIndex, "">>
        ELSE <<detections[first], first, "">>

\* _find_matching_object that does not skip the detections already matched
_find_matching_object_reuse(expected, detections, matched_indices) ==
    LET best == FindLoop(expected, detections, {}, 1, NoBest)
    IN  <<best.best_match, best.best_match_idx, best.raised>>

\* returns (best_match, best_match_idx), (None, None) when nothing matched;
\* the third component is the exception raised instead of returning
_find_matching_object(expected, detections, matched_indices) ==
    LET best == FindLoop(expected, detections, matched_indices, 1, NoBest)
    IN  <<best.best_match, best.best_match_idx, best.raised>>

\* FoundResult reporting the detected box as the expected one
FoundResult_detected(expected, matched) ==
    [component_def_id |-> expected.id,
     name |-> expected.name,
     position |-> Get(expected, "position", <<>>),
     status |-> "FOUND",
     confidence |-> matched.confidence,
     expected_bbox |-> matched.bbox,
     detected_bbox |-> matched.bbox,
     critical |-> expected.critical,
     notes |-> <<"Detected with confidence ", matched.confidence>>]

\* the result dict appended for one expected component
FoundResult(expected, matched) ==
    [component_def_id |-> expected.id,
     name |-> expected.name,
     position |-> Get(expected, "position", <<>>),
     status |-> "FOUND",
     confidence |-> matched.confidence,
     expected_bbox |-> expected.roi,
     detected_bbox |-> matched.bbox,
     critical |-> expected.critical,
     notes |-> <<"Detected with confidence ", matched.confidence>>]

\* MissingResult that fills detected_bbox with the expected region
MissingResult_region(expected) ==
    [component_def_id |-> expected.id,
     name |-> expected.name,
     position |-> Get(expected, "position", <<>>),
     status |-> "MISSING",
     confidence |-> 0,
     expected_bbox |-> expected.roi,
     detected_bbox |-> expected.roi,
     critical |-> expected.critical,
     notes |-> <<"Not detected in expected region">>]

MissingResult(expected) ==
    [component_def_id |-> expected.id,
     name |-> expected.name,
     position |-> Get(expected, "position", <<>>),
     status |-> "MISSING",
     confidence |-> 0,
     expected_bbox |-> expected.roi,
     detected_bbox |-> None,
     critical |-> expected.critical,
     notes |-> <<"Not detected in expected region">>]

\* MatchLoop that never records the selected index as consumed
RECURSIVE MatchLoop_unrecorded(_, _, _, _)
MatchLoop_unrecorded(expected_list, detections, i, acc) ==
    IF i > Len(expected_list) \/ acc.raised # "" THEN acc
    ELSE
      LET expected == expected_list[i]
          step(matched, matched_idx, raised) ==
            IF raised # "" THEN [acc EXCEPT !.raised = raised]
            ELSE IF matched # None
            THEN [acc EXCEPT
                  !.results = Append(acc.results, FoundResult(expected, matched)),
                  !.matched_idxs = Append(acc.matched_idxs, matched_idx)]
            ELSE [acc EXCEPT
                  !.results = Append(acc.results, MissingResult(expected)),
                  !.matched_idxs = Append(acc.matched_idxs, NoIndex)]
          iteration(found) == step(found[1], found[2], found[3])
      IN  MatchLoop_unrecorded(expected_list, detections, i + 1,
                    iteration(_find_matching_object(expected, detections,
                                                    acc.matched_detection_indices)))

\* `for expected in expected_components`, from the i-th on; acc carries results,
\* matched_detection_indices, the matched_idx of every iteration so far and
\* the exception that left the loop, if any
RECURSIVE MatchLoop(_, _, _, _)
MatchLoop(expected_list, detections, i, acc) ==
    IF i > Len(expected_list) \/ acc.raised # "" THEN acc
    ELSE
      LET expected == expected_list[i]
          step(matched, matched_idx, raised) ==
            IF raised # "" THEN [acc EXCEPT !.raised = raised]
            ELSE IF matched # None
            THEN [acc EXCEPT
                  !.results = Append(acc.results, FoundResult(expected, matched)),
                  !.matched_detection_indices =
                      acc.matched_detection_indices \cup {matched_idx},
                  !.matched_idxs = Append(acc.matched_idxs, matched_idx)]
            ELSE [acc EXCEPT
                  !.results = Append(acc.results, MissingResult(expected)),
                  !.matched_idxs = Append(acc.matched_idxs, NoIndex)]
          iteration(found) == step(found[1], found[2], found[3])
      IN  MatchLoop(expected_list, detections, i + 1,
                    iteration(_find_matching_object(expected, detections,
                                                    acc.matched_detection_indices)))

\* MatchRun that keeps the consumed set of the call before (the set held on
\* the instance and never cleared)
MatchRun_stale(expected_list, detections) ==
    MatchLoop(expected_list, detections, 1,
              [results |-> <<>>, matched_detection_indices |-> matched_detection_indices,
               matched_idxs |-> <<>>, raised |-> ""])

\* the sequence in the opposite order
Reverse(seq) == [i \in 1..Len(seq) |-> seq[Len(seq) + 1 - i]]

\* MatchRun that serves the expected components from the last to the first and
\* reports the results in list order
MatchRun_backwards(expected_list, detections) ==
    LET run == MatchLoop(Reverse(expected_list), detections, 1,
                         [results |-> <<>>, matched_detection_indices |-> {},
                          matched_idxs |-> <<>>, raised |-> ""])
    IN  [run EXCEPT !.results = Reverse(run.results),
                    !.matched_idxs = Reverse(run.matched_idxs)]

\* one run of _match_components with its locals at loop exit
MatchRun(expected_list, detections) ==
    MatchLoop(expected_list, detections, 1,
              [results |-> <<>>, matched_detection_indices |-> {},
               matched_idxs |-> <<>>, raised |-> ""])

_match_components(expected_list, detections) ==
    MatchRun(expected_list, detections).results

\* ------------------------------------------------------------------ missing lists and decision
\* MissingOnly without the test of the status
MissingOnly_all(rows, values) == values

\* [f(r) for r in rows if r["status"] == "MISSING"], f given as a sequence
\* of the same length
RECURSIVE MissingOnly(_, _)
MissingOnly(rows, values) ==
    IF rows = <<>> THEN <<>>
    ELSE IF Head(rows).status = "MISSING"
         THEN <<Head(values)>> \o MissingOnly(Tail(rows), Tail(values))
         ELSE MissingOnly(Tail(rows), Tail(values))

\* MissingCriticalOnly without the test of the critical flag
MissingCriticalOnly_all(rows) ==
    MissingOnly(rows, [i \in 1..Len(rows) |-> rows[i].name])

RECURSIVE MissingCriticalOnly(_)
MissingCriticalOnly(rows) ==
    IF rows = <<>> THEN <<>>
    ELSE IF Head(rows).status = "MISSING" /\ Head(rows).critical
         THEN <<Head(rows).name>> \o MissingCriticalOnly(Tail(rows))
         ELSE MissingCriticalOnly(Tail(rows))

\* f"{r['name']} ({r['position']})" if r['position'] else r['name']
PositionText(r) ==
    IF r.position # <<>> THEN r.name \o <<" (">> \o r.position \o <<")">>
    ELSE r.name

\* Verdict that passes a part when half of its components are found
Verdict_half(missing_critical, found_count, total_count) ==
    IF missing_critical # <<>>
    THEN [status |-> "FAIL",
          reason |-> <<"Missing critical components: ">>
                       \o Join(<<", ">>, missing_critical)]
    ELSE IF 2 * found_count >= total_count
    THEN [status |-> "PASS",
          reason |-> <<"All components found (">> \o IntToStr(found_count)
                       \o <<"/">> \o IntToStr(total_count) \o <<")">>]
    ELSE [status |-> "FAIL",
          reason |-> <<"Found only ">> \o IntToStr(found_count) \o <<"/">>
                       \o IntToStr(total_count) \o <<" components">>]

\* the PASS/FAIL decision
Verdict(missing_critical, found_count, total_count) ==
    IF missing_critical # <<>>
    THEN [status |-> "FAIL",
          reason |-> <<"Missing critical components: ">>
                       \o Join(<<", ">>, missing_critical)]
    ELSE IF found_count = total_count
    THEN [status |-> "PASS",
          reason |-> <<"All components found (">> \o IntToStr(found_count)
                       \o <<"/">> \o IntToStr(total_count) \o <<")">>]
    ELSE [status |-> "FAIL",
          reason |-> <<"Found only ">> \o IntToStr(found_count) \o <<"/">>
                       \o IntToStr(total_count) \o <<" components">>]

\* ------------------------------------------------------------------ floats
\* a Python float (IEEE 754 binary64) that is not negative: m is its
\* significand, SignificandBits bits with the most significant first and a
\* leading 1, and e the exponent of the last bit (value = m * 2^e); 0.0 has
\* no bits.  Operations round to nearest, ties to even, as the hardware does.
SignificandBits == 53

\* fractional bits produced by a division before rounding
QuotientBits == 64

\* bits handled by one step of a division or a multiplication
ChunkBits == 8

FloatZero == [m |-> <<>>, e |-> 0]

\* bits without its leading zeros
StripZeros(bits) ==
    IF \A i \in 1..Len(bits) : bits[i] = 0 THEN <<>>
    ELSE SubSeq(bits, CHOOSE i \in 1..Len(bits) :
                          bits[i] = 1 /\ \A j \in 1..(i - 1) : bits[j] = 0,
                Len(bits))

\* the bits of n, without leading zeros
RECURSIVE IntBits(_)
IntBits(n) == IF n = 0 THEN <<>> ELSE Append(IntBits(n \div 2), n % 2)

\* the last c bits of n
LowBits(n, c) == [i \in 1..c |-> (n \div 2^(c - i)) % 2]

RECURSIVE BitsInt(_)
BitsInt(bits) ==
    IF bits = <<>> THEN 0
    ELSE 2 * BitsInt(SubSeq(bits, 1, Len(bits) - 1)) + bits[Len(bits)]

\* bits + 1
Increment(bits) ==
    IF \A i \in 1..Len(bits) : bits[i] = 1
    THEN <<1>> \o [i \in 1..Len(bits) |-> 0]
    ELSE LET last == CHOOSE i \in 1..Len(bits) :
                         bits[i] = 0 /\ \A j \in (i + 1)..Len(bits) : bits[j] = 1
         IN  [i \in 1..Len(bits) |->
                  IF i < last THEN bits[i] ELSE IF i = last THEN 1 ELSE 0]

\* the float nearest to bits * 2^e (+ something below the last bit when
\* sticky), bits without leading zeros
RoundBits(bits, e, sticky) ==
    IF bits = <<>> THEN FloatZero
    ELSE IF Len(bits) <= SignificandBits
    THEN [m |-> bits \o [i \in 1..(SignificandBits - Len(bits)) |-> 0],
          e |-> e - (SignificandBits - Len(bits))]
    ELSE
      LET keep == SubSeq(bits, 1, SignificandBits)
          rest == SubSeq(bits, SignificandBits + 1, Len(bits))
          below == sticky \/ \E i \in 2..Len(rest) : rest[i] = 1
          up == rest[1] = 1 /\ (below \/ keep[SignificandBits] = 1)
          rounded == IF up THEN Increment(keep) ELSE keep
      IN  IF Len(rounded) > SignificandBits
          THEN [m |-> SubSeq(rounded, 1, SignificandBits), e |-> e + Len(rest) + 1]
          ELSE [m |-> rounded, e |-> e + Len(rest)]

\* the first n bits of r / t after the binary point, r < t
RECURSIVE DivBits(_, _, _)
DivBits(r, t, n) ==
    IF n = 0 THEN <<>>
    ELSE LowBits((r * 2^ChunkBits) \div t, ChunkBits)
             \o DivBits((r * 2^ChunkBits) % t, t, n - ChunkBits)

\* what is left of r / t after those n bits
RECURSIVE DivRem(_, _, _)
DivRem(r, t, n) ==
    IF n = 0 THEN r ELSE DivRem((r * 2^ChunkBits) % t, t, n - ChunkBits)

FloatOfInt(n) == RoundBits(IntBits(n), 0, FALSE)

\* a / b of two ints (true division)
FloatDiv(a, b) ==
    RoundBits(StripZeros(IntBits(a \div b) \o DivBits(a % b, b, QuotientBits)),
              0 - QuotientBits, DivRem(a % b, b, QuotientBits) # 0)

\* the bits of bits * k + carry
RECURSIVE MulLoop(_, _, _)
MulLoop(bits, k, carry) ==
    IF bits = <<>> THEN IntBits(carry)
    ELSE
      LET c == IF Len(bits) < ChunkBits THEN Len(bits) ELSE ChunkBits
          v == BitsInt(SubSeq(bits, Len(bits) - c + 1, Len(bits))) * k + carry
      IN  MulLoop(SubSeq(bits, 1, Len(bits) - c), k, v \div 2^c) \o LowBits(v, c)

\* x * k, k an int
FloatMul(x, k) == RoundBits(StripZeros(MulLoop(x.m, k, 0)), x.e, FALSE)

\* ------------------------------------------------------------------ verdict
\* FoundPercentage without the factor 100
FoundPercentage_fraction(found_count, total_count) ==
    IF total_count > 0 THEN FloatDiv(found_count, total_count)
    ELSE FloatZero

\* found_count / total_count * 100 for the counts of the lists the
\* specifications draw, computed once
LongestExpected ==
    IF MaxExpected > MaxVerdictExpected THEN MaxExpected ELSE MaxVerdictExpected

Percentages ==
    [total_count \in 1..LongestExpected |->
        [found_count \in 0..total_count |->
            FloatMul(FloatDiv(found_count, total_count), 100)]]

\* (found_count / total_count * 100) if total_count > 0 else 0
FoundPercentage(found_count, total_count) ==
    IF total_count > 0 THEN Percentages[total_count][found_count]
    ELSE FloatZero

_analyze_results(results, expected_list) ==
    LET found_count == Cardinality({i \in 1..Len(results) : results[i].status = "FOUND"})
        total_count == Len(expected_list)
        missing_components ==
            MissingOnly(results, [i \in 1..Len(results) |-> results[i].name])
        missing_positions ==
            MissingOnly(results, [i \in 1..Len(results) |-> PositionText(results[i])])
        missing_critical == MissingCriticalOnly(results)
        decided(verdict, found_percentage) ==
            [status |-> verdict.status,
             reason |-> verdict.reason,
             found_count |-> found_count,
             total_count |-> total_count,
             found_percentage |-> found_percentage,
             missing_components |-> missing_components,
             missing_positions |-> missing_positions]
    IN  decided(Verdict(missing_critical, found_count, total_count),
                FoundPercentage(found_count, total_count))

\* ------------------------------------------------------------------ store
\* RowsOf without the WHERE clause
RowsOf_all(rows, pid) == rows

\* RowsOf with ORDER BY id DESC
RECURSIVE RowsOf_newest(_, _)
RowsOf_newest(rows, pid) ==
    IF rows = <<>> THEN <<>>
    ELSE IF Head(rows).product_id = pid
         THEN RowsOf_newest(Tail(rows), pid) \o <<Head(rows)>>
         ELSE RowsOf_newest(Tail(rows), pid)

\* SELECT ... FROM component_definitions WHERE product_id = ? ORDER BY id
RECURSIVE RowsOf(_, _)
RowsOf(rows, pid) ==
    IF rows = <<>> THEN <<>>
    ELSE IF Head(rows).product_id = pid
         THEN <<Head(rows)>> \o RowsOf(Tail(rows), pid)
         ELSE RowsOf(Tail(rows), pid)

ComponentOfRow(row) ==
    [id |-> row.id,
     name |-> row.component_name,
     position |-> row.position_label,
     roi |-> [x |-> row.roi_x, y |-> row.roi_y,
              width |-> row.roi_width, height |-> row.roi_height],
     tolerance |-> row.tolerance,
     min_confidence |-> row.min_confidence,
     critical |-> row.is_critical]

get_product_components(pid) ==
    LET rows == RowsOf(component_definitions, pid)
    IN  [i \in 1..Len(rows) |-> ComponentOfRow(rows[i])]

\* SELECT ... FROM products WHERE id = ?: the dict of the row, or None
get_product(pid) ==
    LET found == {i \in 1..Len(products) : products[i].id = pid}
    IN  IF found = {} THEN None ELSE products[CHOOSE i \in found : TRUE]

\* DELETE FROM <table> WHERE id = ?
RECURSIVE DeleteById(_, _)
DeleteById(rows, id) ==
    IF rows = <<>> THEN <<>>
    ELSE IF Head(rows).id = id
         THEN DeleteById(Tail(rows), id)
         ELSE <<Head(rows)>> \o DeleteById(Tail(rows), id)

\* ------------------------------------------------------------------ inputs
Rect(x, y, w, h) == [x |-> x, y |-> y, width |-> w, height |-> h]

Sc == <<"S", "c">>
Xname == <<"x">>
Left == <<"l", "e", "f", "t">>

ROI == Rect(0, 0, 10, 10)
ROI2 == Rect(2, 0, 10, 10)

BoxSame == Rect(0, 0, 10, 10)     \* IoU 1 with ROI, centre distance 0
BoxTiny == Rect(4, 4, 2, 2)       \* IoU 4/100, centre distance 0
BoxShift == Rect(2, 0, 10, 10)    \* IoU 80/120, centre distance 2
BoxSliver == Rect(5, 4, 1, 2)     \* IoU 2/100, centre distance 1/2
BoxCorner == Rect(9, 9, 4, 4)     \* IoU 1/115, centre distance sqrt(72)
BoxFar == Rect(30, 0, 10, 10)     \* disjoint, centre distance 30

Detection(class, confidence, bbox) ==
    [class |-> class, confidence |-> confidence, bbox |-> bbox]

\* detections offered to a direct call of _match_components
MatchDetections ==
    { Detection(<<"s", "C">>, 95, BoxSame),
      Detection(<<"s", "C">>, 30, BoxTiny),
      Detection(<<"s", "C">>, 90, BoxShift),
      Detection(<<"s", "C">>, 60, BoxSliver),
      Detection(<<"c">>, 50, BoxCorner),
      Detection(<<"s", "C">>, 70, BoxFar),
      Detection(<<"X", "s">>, 80, BoxSame),
      Detection(<<>>, 40, BoxShift) }

\* expected components offered to a direct call (ids are given by position);
\* the last one leaves "tolerance" and "position" out, as a hand-written dict may
MatchExpected ==
    { [name |-> name, position |-> Left, roi |-> ROI, tolerance |-> tol,
       min_confidence |-> 80, critical |-> TRUE]
        : name \in {Sc, Xname}, tol \in {1, 10} }
    \cup { [name |-> Sc, roi |-> ROI, critical |-> FALSE] }

\* components of one name with different tolerances, and the detections near
\* their region: the lists on which the order of the matching is examined
OrderExpected == { e \in MatchExpected : e.name = Sc }
OrderDetections == { d \in MatchDetections : d.bbox \in {BoxSame, BoxShift, BoxCorner, BoxFar} }

\* detections with a missing key, a missing box coordinate or a coordinate
\* that is a str (the box lists the keys holding one under "non_numeric")
MalformedDetections ==
    { [confidence |-> 90, bbox |-> BoxSame],
      [class |-> <<"s", "C">>, bbox |-> BoxSame],
      [class |-> <<"s", "C">>, confidence |-> 90],
      [class |-> <<"s", "C">>, confidence |-> 90,
       bbox |-> [x |-> 0, y |-> 0, height |-> 10]],
      [class |-> <<"s", "C">>, confidence |-> 90,
       bbox |-> [x |-> 0, y |-> 0, width |-> 10, height |-> 10,
                 non_numeric |-> {"x"}]],
      [class |-> <<"X", "s">>, confidence |-> 90] }

\* the lists offered to a call that may meet a malformed detection
MalformedInputs ==
    MalformedDetections
    \cup { Detection(<<"s", "C">>, 95, BoxSame), Detection(<<"X", "s">>, 80, BoxShift) }

MalformedExpected ==
    { [name |-> name, position |-> Left, roi |-> ROI, tolerance |-> 10,
       min_confidence |-> 80, critical |-> TRUE] : name \in {Sc, Xname} }

\* expected components and detections of the calls whose verdict is examined:
\* with and without a position label, critical and not
VerdictExpected ==
    { [name |-> Sc, position |-> Left, roi |-> ROI, tolerance |-> 10,
       min_confidence |-> 80, critical |-> FALSE],
      [name |-> Xname, position |-> <<>>, roi |-> ROI2, tolerance |-> 10,
       min_confidence |-> 80, critical |-> FALSE],
      [name |-> Sc, position |-> <<>>, roi |-> ROI2, tolerance |-> 10,
       min_confidence |-> 80, critical |-> TRUE] }

VerdictDetections ==
    { Detection(<<"s", "C">>, 95, BoxSame), Detection(<<"X", "s">>, 30, BoxShift) }

\* the lists of a caller that calls _match_components again and again
RepeatExpected ==
    { [name |-> Sc, position |-> Left, roi |-> ROI, tolerance |-> 10,
       min_confidence |-> 80, critical |-> TRUE] }

RepeatDetections ==
    { Detection(<<"s", "C">>, 95, BoxSame), Detection(<<"s", "C">>, 90, BoxShift) }

\* boxes handed to _calculate_iou: integer coordinates, sizes that may be
\* zero or negative
IouBoxes ==
    { Rect(x, y, w, h) : x \in 0..MaxCoord, y \in 0..MaxCoord,
                         w \in (0 - 1)..MaxCoord, h \in (0 - 1)..MaxCoord }

\* seq without the entries at the indices in S
RECURSIVE Without(_, _)
Without(seq, S) ==
    IF seq = <<>> THEN <<>>
    ELSE Without(SubSeq(seq, 1, Len(seq) - 1), S)
             \o (IF Len(seq) \in S THEN <<>> ELSE <<seq[Len(seq)]>>)

\* the lists of test_duplicate_names: three screws expected at left, center
\* and right; the detections of its tests 1A and 1C
Screw == <<"s", "c", "r", "e", "w">>
Center == <<"c", "e", "n", "t", "e", "r">>
Right == <<"r", "i", "g", "h", "t">>

ScrewExpected ==
    << [id |-> 1, name |-> Screw, position |-> Left, roi |-> Rect(100, 100, 50, 50),
        tolerance |-> 50, critical |-> TRUE],
       [id |-> 2, name |-> Screw, position |-> Center, roi |-> Rect(300, 100, 50, 50),
        tolerance |-> 50, critical |-> TRUE],
       [id |-> 3, name |-> Screw, position |-> Right, roi |-> Rect(500, 100, 50, 50),
        tolerance |-> 50, critical |-> TRUE] >>

ScrewDetections ==
    { Detection(Screw, 95, Rect(105, 105, 48, 48)),
      Detection(Screw, 93, Rect(305, 102, 50, 50)),
      Detection(Screw, 97, Rect(505, 98, 52, 52)),
      Detection(Screw, 93, Rect(110, 108, 50, 50)) }

\* mvi_detections_edge of test 1C: two detections near the left screw
EdgeDetections ==
    << Detection(Screw, 95, Rect(105, 105, 48, 48)),
       Detection(Screw, 93, Rect(110, 108, 50, 50)) >>

\* the product of test_mvi_integration (pig, monk and peacock, as
\* get_product_components returns them) and the detections of its FAIL case
Pig == <<"p", "i", "g">>
Monk == <<"m", "o", "n", "k">>
Peacock == <<"p", "e", "a", "c", "o", "c", "k">>

AnimalExpected ==
    << [id |-> 1, name |-> Pig, position |-> Left, roi |-> Rect(100, 150, 150, 200),
        tolerance |-> 50, min_confidence |-> 80, critical |-> TRUE],
       [id |-> 2, name |-> Monk, position |-> Center, roi |-> Rect(300, 150, 150, 200),
        tolerance |-> 50, min_confidence |-> 80, critical |-> TRUE],
       [id |-> 3, name |-> Peacock, position |-> Right, roi |-> Rect(500, 100, 200, 300),
        tolerance |-> 50, min_confidence |-> 80, critical |-> TRUE] >>

AnimalDetectionsFail ==
    << Detection(Pig, 94, Rect(105, 155, 145, 195)),
       Detection(Monk, 98, Rect(305, 155, 145, 195)) >>

SeqsUpTo(S, max) == UNION { [1..n -> S] : n \in 0..max }

WithIds(list) == [i \in 1..Len(list) |-> list[i] @@ [id |-> i]]

\* detections relayed to process_mvi_result
StoreDetections ==
    { Detection(<<"s", "C">>, 95, BoxSame),
      Detection(<<"X", "s">>, 30, BoxShift) }

StoreDetectionLists == SeqsUpTo(StoreDetections, MaxDetections)

\* component definitions entered into the store: (name, position, roi, critical)
StoreComponents ==
    { <<Sc, Left, ROI, TRUE>>,
      <<Sc, <<>>, ROI2, FALSE>>,
      <<Xname, Left, ROI2, TRUE>> }

\* products entered into the store: names, and pass_threshold in hundredths
ProductNames == {<<"P">>}
StoreProductNames == {<<"P">>, <<"Q">>}
PassThresholds == {50, 100}

ProductIds == {1, 2}

\* ------------------------------------------------------------------ actions
NoCall ==
    /\ product_id' = 0
    /\ expected_components' = <<>>
    /\ mvi_detections' = <<>>
    /\ matching_results' = <<>>
    /\ matched_idxs' = <<>>
    /\ matched_detection_indices' = {}
    /\ analysis' = None
    /\ images' = <<images[1]>>      \* the result dict of the call before is dropped

\* create_product with INSERT OR REPLACE: a product of the name is replaced by
\* a new row
create_product_replace(name, pass_threshold) ==
    LET new_id == sqlite_sequence.products + 1
        others == SelectSeq(products, LAMBDA row : row.name # name)
    IN  /\ sqlite_sequence.products < MaxProducts
        /\ products' = Append(others,
               [id |-> new_id, name |-> name, pass_threshold |-> pass_threshold])
        /\ sqlite_sequence' = [sqlite_sequence EXCEPT !.products = new_id]
        /\ ret' = new_id
        /\ pc' = "create_product"
        /\ UNCHANGED component_definitions
        /\ NoCall

\* INSERT INTO products; on IntegrityError (the name exists) the id of the
\* existing product is returned
create_product(name, pass_threshold) ==
    LET existing == {i \in 1..Len(products) : products[i].name = name}
        new_id == sqlite_sequence.products + 1
    IN  /\ existing # {} \/ sqlite_sequence.products < MaxProducts
        /\ IF existing = {}
           THEN /\ products' = Append(products,
                       [id |-> new_id, name |-> name, pass_threshold |-> pass_threshold])
                /\ sqlite_sequence' = [sqlite_sequence EXCEPT !.products = new_id]
                /\ ret' = new_id
           ELSE /\ products' = products
                /\ sqlite_sequence' = sqlite_sequence
                /\ ret' = products[CHOOSE i \in existing : TRUE].id
        /\ pc' = "create_product"
        /\ UNCHANGED component_definitions
        /\ NoCall

add_component_definition(pid, component_name, roi, position_label, tolerance, min_confidence, is_critical) ==
    /\ LET component_id == sqlite_sequence.component_definitions + 1
       IN  /\ sqlite_sequence' =
                  [sqlite_sequence EXCEPT !.component_definitions = component_id]
           /\ component_definitions' = Append(component_definitions,
                  [id |-> component_id,
                   product_id |-> pid,
                   component_name |-> component_name,
                   position_label |-> position_label,
                   roi_x |-> roi.x, roi_y |-> roi.y,
                   roi_width |-> roi.width, roi_height |-> roi.height,
                   tolerance |-> tolerance,
                   min_confidence |-> min_confidence,
                   is_critical |-> is_critical])
           /\ ret' = component_id
    /\ pc' = "add_component_definition"
    /\ UNCHANGED products
    /\ NoCall

\* DELETE FROM products WHERE id = ? on a connection of its own; no
\* connection sets PRAGMA foreign_keys, so ON DELETE CASCADE stays off and the
\* table component_definitions is left as it is
delete_product(pid) ==
    /\ products' = DeleteById(products, pid)
    /\ ret' = None
    /\ pc' = "delete_product"
    /\ UNCHANGED <<component_definitions, sqlite_sequence>>
    /\ NoCall

delete_component_definition(component_id) ==
    /\ component_definitions' = DeleteById(component_definitions, component_id)
    /\ ret' = None
    /\ pc' = "delete_component_definition"
    /\ UNCHANGED <<products, sqlite_sequence>>
    /\ NoCall

\* ------------------------------------------------------------------ annotation
\* the one-character strs U+2713 (check mark) and U+2717 (ballot x) of the labels
CheckMark == "U+2713"
CrossMark == "U+2717"

\* BGR colours
Green == <<0, 255, 0>>
Red == <<0, 0, 255>>
White == <<255, 255, 255>>

LowerLetters == <<"a", "b", "c", "d", "e", "f", "g", "h", "i", "j", "k", "l", "m", "n", "o", "p", "q", "r", "s", "t", "u", "v", "w", "x", "y", "z">>
UpperLetters == <<"A", "B", "C", "D", "E", "F", "G", "H", "I", "J", "K", "L", "M", "N", "O", "P", "Q", "R", "S", "T", "U", "V", "W", "X", "Y", "Z">>

UpperChar(c) ==
    LET at == {i \in 1..Len(LowerLetters) : LowerLetters[i] = c}
    IN  IF at = {} THEN c ELSE UpperLetters[CHOOSE i \in at : TRUE]

upper(s) == [i \in 1..Len(s) |-> UpperChar(s[i])]

\* f"{confidence:.2f}", the confidence being held in hundredths
Format2f(confidence) ==
    IntToStr(confidence \div 100) \o <<".">>
        \o IntToStr((confidence % 100) \div 10) \o IntToStr(confidence % 10)

\* DrawResult that frames the detected box of a FOUND result
DrawResult_detected(result) ==
    LET found == result.status = "FOUND"
        roi == IF found THEN result.detected_bbox ELSE result.expected_bbox
        color == IF found THEN Green ELSE Red
        label == IF found
                 THEN <<CheckMark, " ">> \o result.name \o <<" (">>
                          \o Format2f(result.confidence) \o <<")">>
                 ELSE <<CrossMark, " ">> \o result.name \o <<" MISSING">>
        thickness == IF found THEN 3 ELSE 4
    IN  <<[call |-> "rectangle", pt1 |-> <<roi.x, roi.y>>,
           pt2 |-> <<roi.x + roi.width, roi.y + roi.height>>,
           color |-> color, thickness |-> thickness],
          [call |-> "rectangle", behind |-> label, beside |-> roi,
           color |-> color, thickness |-> -1],
          [call |-> "putText", text |-> label, beside |-> roi,
           color |-> White, thickness |-> 2]>>
        \o (IF result.position # <<>>
            THEN <<[call |-> "putText",
                    text |-> <<"[">> \o upper(result.position) \o <<"]">>,
                    org |-> <<roi.x, IF roi.y > 50 THEN roi.y - 35
                                     ELSE roi.y + roi.height + 40>>,
                    color |-> color, thickness |-> 2]>>
            ELSE <<>>)

\* the cv2 calls of one iteration of the loop of _draw_annotations: the frame
\* of the region, the filled box behind the label, the label and the position
\* label. The corners of the box behind the label and the origin of the label
\* come from cv2.getTextSize, i.e. from the font; the call keeps the label and
\* the region it is placed beside instead of the resolved corners.
DrawResult(result) ==
    LET roi == result.expected_bbox
        found == result.status = "FOUND"
        color == IF found THEN Green ELSE Red
        label == IF found
                 THEN <<CheckMark, " ">> \o result.name \o <<" (">>
                          \o Format2f(result.confidence) \o <<")">>
                 ELSE <<CrossMark, " ">> \o result.name \o <<" MISSING">>
        thickness == IF found THEN 3 ELSE 4
    IN  <<[call |-> "rectangle", pt1 |-> <<roi.x, roi.y>>,
           pt2 |-> <<roi.x + roi.width, roi.y + roi.height>>,
           color |-> color, thickness |-> thickness],
          [call |-> "rectangle", behind |-> label, beside |-> roi,
           color |-> color, thickness |-> -1],
          [call |-> "putText", text |-> label, beside |-> roi,
           color |-> White, thickness |-> 2]>>
        \o (IF result.position # <<>>
            THEN <<[call |-> "putText",
                    text |-> <<"[">> \o upper(result.position) \o <<"]">>,
                    org |-> <<roi.x, IF roi.y > 50 THEN roi.y - 35
                                     ELSE roi.y + roi.height + 40>>,
                    color |-> color, thickness |-> 2]>>
            ELSE <<>>)

\* `for result in matching_results`, from the i-th on, drawing on image
RECURSIVE DrawLoop(_, _, _)
DrawLoop(image, matching_results_, i) ==
    IF i > Len(matching_results_) THEN image
    ELSE DrawLoop(image \o DrawResult(matching_results_[i]), matching_results_, i + 1)

\* draws on the image it is handed and returns it
_draw_annotations(image, matching_results_) == DrawLoop(image, matching_results_, 1)

\* ImageCopy that hands back the image itself
ImageCopy_alias(heap, ref) == [heap |-> heap, ref |-> ref]

\* image.copy(): a new object with the pixels of the image
ImageCopy(heap, ref) == [heap |-> Append(heap, heap[ref]), ref |-> Len(heap) + 1]

\* the dict process_mvi_result returns after matching
ResultDict(an, results, annotated_image) ==
    [status |-> an.status,
     reason |-> an.reason,
     found |-> an.found_count,
     total |-> an.total_count,
     found_percentage |-> an.found_percentage,
     missing_components |-> an.missing_components,
     missing_positions |-> an.missing_positions,
     component_results |-> results,
     annotated_image |-> annotated_image]

\* the dict process_mvi_result returns when the product has no definitions
NoDefinitionsDict(image) ==
    [status |-> "ERROR",
     reason |-> <<"No component definitions found for this product">>,
     found |-> 0,
     total |-> 0,
     found_percentage |-> FloatZero,
     missing_components |-> <<>>,
     missing_positions |-> <<>>,
     component_results |-> <<>>,
     annotated_image |-> image]

process_mvi_result(image, pid, detections) ==
    LET heap == <<images[image]>>       \* the caller holds its frame only
        frame == 1                      \* and this is its reference
        matched(expected_list, run) ==
            LET annotated(copied) ==
                    /\ images' = [copied.heap EXCEPT ![copied.ref] =
                                      _draw_annotations(@, run.results)]
                    /\ ret' = ResultDict(analysis', run.results, copied.ref)
            IN  IF run.raised # ""
                THEN /\ pc' = "raised"
                     /\ ret' = [exception |-> run.raised]
                     /\ matching_results' = <<>>
                     /\ matched_idxs' = <<>>
                     /\ matched_detection_indices' = {}
                     /\ analysis' = None
                     /\ images' = heap
                ELSE /\ pc' = "process_mvi_result"
                     /\ matching_results' = run.results
                     /\ matched_idxs' = run.matched_idxs
                     /\ matched_detection_indices' = run.matched_detection_indices
                     /\ analysis' = _analyze_results(run.results, expected_list)
                     /\ annotated(ImageCopy(heap, frame))
        loaded(expected_list) ==
            /\ expected_components' = expected_list
            /\ IF expected_list = <<>>
               THEN /\ pc' = "process_mvi_result"
                    /\ ret' = NoDefinitionsDict(frame)
                    /\ matching_results' = <<>>
                    /\ matched_idxs' = <<>>
                    /\ matched_detection_indices' = {}
                    /\ analysis' = None
                    /\ images' = heap
               ELSE matched(expected_list, MatchRun(expected_list, detections))
    IN  /\ product_id' = pid
        /\ mvi_detections' = detections
        /\ UNCHANGED <<products, component_definitions, observed, call_args,
                       sqlite_sequence>>
        /\ loaded(get_product_components(pid))

\* a direct call of _match_components on the lists chosen at the start; an
\* exception leaves the call without a return value
MatchComponentsCall ==
    /\ pc = "call"
    /\ LET returned(run) ==
               IF run.raised # ""
               THEN /\ pc' = "raised"
                    /\ ret' = [exception |-> run.raised]
                    /\ UNCHANGED <<matching_results, matched_idxs,
                                   matched_detection_indices>>
               ELSE /\ pc' = "_match_components"
                    /\ matching_results' = run.results
                    /\ matched_idxs' = run.matched_idxs
                    /\ matched_detection_indices' = run.matched_detection_indices
                    /\ UNCHANGED ret
       IN  returned(MatchRun(expected_components, mvi_detections))
    /\ UNCHANGED <<products, component_definitions, product_id, expected_components,
                   mvi_detections, analysis, observed, call_args,
                   sqlite_sequence, images>>

\* a direct call of _analyze_results on what _match_components returned
AnalyzeResultsCall ==
    /\ pc = "_match_components"
    /\ analysis' = _analyze_results(matching_results, expected_components)
    /\ pc' = "_analyze_results"
    /\ UNCHANGED <<products, component_definitions, ret, product_id, expected_components,
                   mvi_detections, matching_results, matched_idxs,
                   matched_detection_indices, observed, call_args,
                   sqlite_sequence, images>>

\* the caller builds the lists of its next call of _match_components; what
\* the call before left behind stays as it is.  The caller notes on what it
\* kept, if anything, that a call on other lists comes in between
ChooseLists ==
    /\ pc = "_match_components"
    /\ expected_components' \in
           { WithIds(l) : l \in SeqsUpTo(RepeatExpected, MaxExpected) }
    /\ mvi_detections' \in SeqsUpTo(RepeatDetections, MaxDetections)
    /\ pc' = "call"
    /\ observed' =
           IF /\ observed # <<>>
              /\ \/ observed[1].expected_components # expected_components'
                 \/ observed[1].mvi_detections # mvi_detections'
           THEN <<[observed[1] EXCEPT !.between = TRUE]>>
           ELSE observed
    /\ UNCHANGED <<products, component_definitions, ret, product_id, matching_results,
                   matched_idxs, matched_detection_indices, analysis, call_args,
                   sqlite_sequence, images>>

\* the caller keeps the list the call returned, with the call's arguments
Observe ==
    /\ pc = "_match_components"
    /\ observed = <<>>
    /\ observed' = <<[expected_components |-> expected_components,
                      mvi_detections |-> mvi_detections,
                      results |-> matching_results,
                      between |-> FALSE]>>
    /\ UNCHANGED <<products, component_definitions, ret, pc, product_id,
                   expected_components, mvi_detections, matching_results,
                   matched_idxs, matched_detection_indices, analysis, call_args,
                   sqlite_sequence, images>>

\* a direct call of _calculate_iou on the two boxes chosen at the start
CalculateIouCall ==
    /\ pc = "call_iou"
    /\ ret' = _calculate_iou(call_args[1], call_args[2])
    /\ pc' = "_calculate_iou"
    /\ UNCHANGED <<products, component_definitions, product_id, expected_components,
                   mvi_detections, matching_results, matched_idxs,
                   matched_detection_indices, analysis, observed, call_args,
                   sqlite_sequence, images>>

\* ------------------------------------------------------------------ specifications
\* the store and the inspection entry point
Init ==
    /\ products = <<>>
    /\ component_definitions = <<>>
    /\ ret = 0
    /\ pc = "init"
    /\ product_id = 0
    /\ expected_components = <<>>
    /\ mvi_detections = <<>>
    /\ matching_results = <<>>
    /\ matched_idxs = <<>>
    /\ matched_detection_indices = {}
    /\ analysis = None
    /\ observed = <<>>
    /\ call_args = <<>>
    /\ sqlite_sequence = NoSequence
    /\ images = <<Frame>>

AddComponent ==
    \E pid \in ProductIds, c \in StoreComponents :
        /\ sqlite_sequence.component_definitions < MaxExpected
        /\ add_component_definition(pid, c[1], c[3], c[2], 10, 80, c[4])
        /\ UNCHANGED <<call_args, observed>>

ProcessMviResult ==
    \E pid \in ProductIds, detections \in StoreDetectionLists :
        process_mvi_result(1, pid, detections)

CreateProduct ==
    \E name \in ProductNames, pass_threshold \in PassThresholds :
        /\ create_product(name, pass_threshold)
        /\ UNCHANGED <<call_args, observed>>

Next == CreateProduct \/ AddComponent \/ ProcessMviResult

Spec == Init /\ [][Next]_vars

\* the matcher and the verdict called directly on caller-built lists
\* the store alone, with products and components deleted as well; call_args
\* holds the arguments of the last call and observed is the caller's ledger:
\* the components it has added and not deleted, a deleted product's included.
\* Components are added to product ids that create_product has returned.
CreateStoreProduct ==
    \E name \in StoreProductNames, pass_threshold \in PassThresholds :
        /\ create_product(name, pass_threshold)
        /\ call_args' = <<name, pass_threshold>>
        /\ UNCHANGED observed

AddStoreComponent ==
    \E pid \in ProductIds, c \in StoreComponents :
        /\ get_product(pid) # None
        /\ sqlite_sequence.component_definitions < MaxStoreComponents
        /\ add_component_definition(pid, c[1], c[3], c[2], 10, 80, c[4])
        /\ call_args' = <<pid>>
        /\ observed' = Append(observed,
               [product_id |-> pid,
                component |-> [id |-> ret', name |-> c[1], position |-> c[2],
                               roi |-> c[3], tolerance |-> 10,
                               min_confidence |-> 80, critical |-> c[4]]])

DeleteProduct ==
    \E pid \in ProductIds :
        /\ delete_product(pid)
        /\ call_args' = <<pid>>
        /\ observed' = SelectSeq(observed, LAMBDA entry : entry.product_id # pid)

DeleteComponent ==
    \E component_id \in 1..MaxStoreComponents :
        /\ delete_component_definition(component_id)
        /\ call_args' = <<component_id>>
        /\ observed' = SelectSeq(observed,
                                 LAMBDA entry : entry.component.id # component_id)

NextStore == CreateStoreProduct \/ AddStoreComponent \/ DeleteProduct \/ DeleteComponent

SpecStore == Init /\ [][NextStore]_vars

InitMatch ==
    /\ products = <<>>
    /\ component_definitions = <<>>
    /\ ret = 0
    /\ pc = "call"
    /\ product_id = 0
    /\ expected_components \in { WithIds(l) : l \in SeqsUpTo(MatchExpected, MaxExpected) }
    /\ mvi_detections \in SeqsUpTo(MatchDetections, MaxDetections)
    /\ matching_results = <<>>
    /\ matched_idxs = <<>>
    /\ matched_detection_indices = {}
    /\ analysis = None
    /\ observed = <<>>
    /\ call_args = <<>>
    /\ sqlite_sequence = NoSequence
    /\ images = <<Frame>>

NextMatch == MatchComponentsCall \/ AnalyzeResultsCall

SpecMatch == InitMatch /\ [][NextMatch]_vars

\* the matcher called directly on lists that may hold malformed detections
InitOrder ==
    /\ products = <<>>
    /\ component_definitions = <<>>
    /\ ret = 0
    /\ pc = "call"
    /\ product_id = 0
    /\ expected_components \in { WithIds(l) : l \in SeqsUpTo(OrderExpected, MaxExpected) }
    /\ mvi_detections \in SeqsUpTo(OrderDetections, MaxDetections)
    /\ matching_results = <<>>
    /\ matched_idxs = <<>>
    /\ matched_detection_indices = {}
    /\ analysis = None
    /\ observed = <<>>
    /\ call_args = <<>>
    /\ sqlite_sequence = NoSequence
    /\ images = <<Frame>>

SpecOrder == InitOrder /\ [][NextMatch]_vars

InitMalformed ==
    /\ products = <<>>
    /\ component_definitions = <<>>
    /\ ret = 0
    /\ pc = "call"
    /\ product_id = 0
    /\ expected_components \in
           { WithIds(l) : l \in SeqsUpTo(MalformedExpected, MaxExpected) }
    /\ mvi_detections \in SeqsUpTo(MalformedInputs, MaxDetections)
    /\ matching_results = <<>>
    /\ matched_idxs = <<>>
    /\ matched_detection_indices = {}
    /\ analysis = None
    /\ observed = <<>>
    /\ call_args = <<>>
    /\ sqlite_sequence = NoSequence
    /\ images = <<Frame>>

SpecMalformed == InitMalformed /\ [][NextMatch]_vars

\* the matcher and the verdict on longer expected lists, and on the lists of
\* test_mvi_integration
InitVerdict ==
    /\ products = <<>>
    /\ component_definitions = <<>>
    /\ ret = 0
    /\ pc = "call"
    /\ product_id = 0
    /\ expected_components \in
           { WithIds(l) : l \in SeqsUpTo(VerdictExpected, MaxVerdictExpected) }
               \cup {AnimalExpected}
    /\ mvi_detections \in
           SeqsUpTo(VerdictDetections, MaxDetections) \cup {AnimalDetectionsFail}
    /\ matching_results = <<>>
    /\ matched_idxs = <<>>
    /\ matched_detection_indices = {}
    /\ analysis = None
    /\ observed = <<>>
    /\ call_args = <<>>
    /\ sqlite_sequence = NoSequence
    /\ images = <<Frame>>

SpecVerdict == InitVerdict /\ [][NextMatch]_vars

\* repeated calls of _match_components on one instance
InitRepeat ==
    /\ products = <<>>
    /\ component_definitions = <<>>
    /\ ret = 0
    /\ pc = "call"
    /\ product_id = 0
    /\ expected_components \in
           { WithIds(l) : l \in SeqsUpTo(RepeatExpected, MaxExpected) }
    /\ mvi_detections \in SeqsUpTo(RepeatDetections, MaxDetections)
    /\ matching_results = <<>>
    /\ matched_idxs = <<>>
    /\ matched_detection_indices = {}
    /\ analysis = None
    /\ observed = <<>>
    /\ call_args = <<>>
    /\ sqlite_sequence = NoSequence
    /\ images = <<Frame>>

NextRepeat == MatchComponentsCall \/ ChooseLists \/ Observe

SpecRepeat == InitRepeat /\ [][NextRepeat]_vars

\* _calculate_iou called directly
InitIoU ==
    /\ products = <<>>
    /\ component_definitions = <<>>
    /\ ret = 0
    /\ pc = "call_iou"
    /\ product_id = 0
    /\ expected_components = <<>>
    /\ mvi_detections = <<>>
    /\ matching_results = <<>>
    /\ matched_idxs = <<>>
    /\ matched_detection_indices = {}
    /\ analysis = None
    /\ observed = <<>>
    /\ call_args \in IouBoxes \X IouBoxes
    /\ sqlite_sequence = NoSequence
    /\ images = <<Frame>>

NextIoU == CalculateIouCall

SpecIoU == InitIoU /\ [][NextIoU]_vars

\* the matcher on the lists of test_duplicate_names: the expected screws, or
\* some of them, and lists of that test's detections
InitScrew ==
    /\ products = <<>>
    /\ component_definitions = <<>>
    /\ ret = 0
    /\ pc = "call"
    /\ product_id = 0
    /\ expected_components \in { Without(ScrewExpected, S) : S \in SUBSET (1..3) }
    /\ mvi_detections \in SeqsUpTo(ScrewDetections, MaxDetections)
    /\ matching_results = <<>>
    /\ matched_idxs = <<>>
    /\ matched_detection_indices = {}
    /\ analysis = None
    /\ observed = <<>>
    /\ call_args = <<>>
    /\ sqlite_sequence = NoSequence
    /\ images = <<Frame>>

SpecScrew == InitScrew /\ [][NextMatch]_vars

\* ------------------------------------------------------------------ properties
\* the matcher has returned in this state
Matched == pc \in {"_match_components", "_analyze_results", "process_mvi_result"}

\* detection indices selected by the iterations before the k-th
ConsumedBefore(k) == { matched_idxs[j] : j \in 1..(k - 1) } \ {NoIndex}

\* the class rule as the documentation words it: one label contains the other,
\* case folded
ClassRule(name, label) ==
    \/ IsSubstring(lower(name), lower(label))
    \/ IsSubstring(lower(label), lower(name))

\* IoU(e.roi, d.bbox) > 0.05, i.e. 20 * inter > union
IouQualifies(e, d) ==
    LET iou == _calculate_iou(e.roi, d.bbox) IN 20 * iou.n > iou.d

\* (2 * centre distance)^2 between e.roi and d.bbox
CentreQ(e, d) ==
    _calculate_distance(_calculate_center(e.roi), _calculate_center(d.bbox))

ToleranceOf(e) == IF "tolerance" \in DOMAIN e THEN e.tolerance ELSE 50

\* centre distance <= e.tolerance
DistanceQualifies(e, d) ==
    ToleranceOf(e) >= 0 /\ CentreQ(e, d) <= 4 * ToleranceOf(e) * ToleranceOf(e)

\* the not-yet-consumed, class-matching detections when the k-th expected
\* component is processed
Candidates(k) ==
    { i \in 1..Len(mvi_detections) :
        /\ i \notin ConsumedBefore(k)
        /\ ClassRule(expected_components[k].name, mvi_detections[i].class) }

IouCandidates(k) ==
    { i \in Candidates(k) : IouQualifies(expected_components[k], mvi_detections[i]) }

DistanceCandidates(k) ==
    { i \in Candidates(k) : DistanceQualifies(expected_components[k], mvi_detections[i]) }

\* IoU of candidate i is at least that of candidate j, for the k-th component
IouAtLeast(k, i, j) ==
    LET a == _calculate_iou(expected_components[k].roi, mvi_detections[i].bbox)
        b == _calculate_iou(expected_components[k].roi, mvi_detections[j].bbox)
    IN  a.n * b.d >= b.n * a.d

\* C1: within one call of _match_components the detections backing the FOUND
\* results are pairwise distinct indices of the detection list.
NoDoubleConsumption ==
    Matched =>
        /\ \A k \in 1..Len(matching_results) :
              matching_results[k].status = "FOUND"
                  => matched_idxs[k] \in 1..Len(mvi_detections)
        /\ \A j, k \in 1..Len(matching_results) :
              (j # k /\ matching_results[j].status = "FOUND"
                     /\ matching_results[k].status = "FOUND")
                  => matched_idxs[j] # matched_idxs[k]

\* two expected components for which the same two detections qualify are both
\* FOUND
NoDoubleConsumptionWitness ==
    /\ pc = "_match_components"
    /\ Len(matching_results) = 2
    /\ Len(mvi_detections) = 2
    /\ \A k \in 1..2 : matching_results[k].status = "FOUND"
    /\ \A k \in 1..2 : \A i \in 1..2 :
          /\ ClassRule(expected_components[k].name, mvi_detections[i].class)
          /\ IouQualifies(expected_components[k], mvi_detections[i])

\* C2: if some not-yet-consumed class-matching detection has IoU > 0.05, the
\* detection selected for e is a not-yet-consumed class-matching detection of
\* highest IoU (so never one that qualifies by centre distance only).
IouFirst ==
    Matched =>
        \A k \in 1..Len(matching_results) :
            IouCandidates(k) # {} =>
                /\ matched_idxs[k] \in IouCandidates(k)
                /\ \A i \in Candidates(k) : IouAtLeast(k, matched_idxs[k], i)

\* C3: when no not-yet-consumed class-matching detection has IoU > 0.05, the
\* detection selected for e is one of smallest centre distance among those
\* within e.tolerance, and none is selected when none is within tolerance.
DistanceFallback ==
    Matched =>
        \A k \in 1..Len(matching_results) :
            IouCandidates(k) = {} =>
                IF DistanceCandidates(k) = {}
                THEN matched_idxs[k] = NoIndex
                ELSE /\ matched_idxs[k] \in DistanceCandidates(k)
                     /\ \A i \in DistanceCandidates(k) :
                           CentreQ(expected_components[k], mvi_detections[matched_idxs[k]])
                             <= CentreQ(expected_components[k], mvi_detections[i])

\* the fallback picks the second detection because it is nearer than the first,
\* both being within tolerance
DistanceFallbackWitness ==
    /\ pc = "_match_components"
    /\ Len(matching_results) >= 1
    /\ IouCandidates(1) = {}
    /\ {1, 2} \subseteq DistanceCandidates(1)
    /\ matched_idxs[1] = 2
    /\ CentreQ(expected_components[1], mvi_detections[2])
         < CentreQ(expected_components[1], mvi_detections[1])

\* C4: e is FOUND iff, when e is processed, some not-yet-consumed detection
\* satisfies the class rule and has IoU > 0.05 or centre distance <= tolerance;
\* otherwise e is MISSING; the selected detection satisfies both.
FoundIffQualifies ==
    Matched =>
        \A k \in 1..Len(matching_results) :
            LET qualifying == IouCandidates(k) \cup DistanceCandidates(k)
            IN  /\ matching_results[k].status = "FOUND" <=> qualifying # {}
                /\ matching_results[k].status = "MISSING" <=> qualifying = {}
                /\ matching_results[k].status = "FOUND" => matched_idxs[k] \in qualifying
                /\ matching_results[k].status = "MISSING" => matched_idxs[k] = NoIndex

\* a component FOUND through a label that is only a part of its name and by
\* centre distance only, and another component MISSING although a detection of
\* its class is left
FoundIffQualifiesWitness ==
    /\ pc = "_match_components"
    /\ \E k \in 1..Len(matching_results) :
          /\ matching_results[k].status = "FOUND"
          /\ lower(mvi_detections[matched_idxs[k]].class) # lower(expected_components[k].name)
          /\ ~IouQualifies(expected_components[k], mvi_detections[matched_idxs[k]])
    /\ \E k \in 1..Len(matching_results) :
          /\ matching_results[k].status = "MISSING"
          /\ Candidates(k) # {}

\* C5: _match_components returns one result per expected component, in order,
\* the i-th carrying the id, name, position, critical flag and roi of the i-th
\* expected component, whatever the detection list.
OneResultPerExpected ==
    Matched =>
        /\ Len(matching_results) = Len(expected_components)
        /\ \A k \in 1..Len(expected_components) :
              /\ matching_results[k].component_def_id = expected_components[k].id
              /\ matching_results[k].name = expected_components[k].name
              /\ matching_results[k].position =
                    (IF "position" \in DOMAIN expected_components[k]
                     THEN expected_components[k].position ELSE <<>>)
              /\ matching_results[k].critical = expected_components[k].critical
              /\ matching_results[k].expected_bbox = expected_components[k].roi

\* two different expected components, the first MISSING and the second FOUND
\* on a box that is not its roi
OneResultPerExpectedWitness ==
    /\ pc = "_match_components"
    /\ Len(expected_components) = 2
    /\ expected_components[1].name # expected_components[2].name
    /\ matching_results[1].status = "MISSING"
    /\ matching_results[2].status = "FOUND"
    /\ matching_results[2].detected_bbox # expected_components[2].roi

\* C6: a result is FOUND iff its detected_bbox is non-null, and then its
\* confidence and detected_bbox are those of the selected detection; a MISSING
\* result has confidence 0.0 and detected_bbox null.
FoundCarriesDetection ==
    Matched =>
        \A k \in 1..Len(matching_results) :
            /\ matching_results[k].status \in {"FOUND", "MISSING"}
            /\ matching_results[k].status = "FOUND"
                  <=> matching_results[k].detected_bbox # None
            /\ matching_results[k].status = "FOUND" =>
                  /\ matched_idxs[k] \in 1..Len(mvi_detections)
                  /\ matching_results[k].confidence
                        = mvi_detections[matched_idxs[k]].confidence
                  /\ matching_results[k].detected_bbox
                        = mvi_detections[matched_idxs[k]].bbox
            /\ matching_results[k].status = "MISSING" =>
                  /\ matching_results[k].confidence = 0
                  /\ matching_results[k].detected_bbox = None

\* a FOUND result backed by the second detection, whose confidence and box
\* differ from the first detection's, next to a MISSING result
FoundCarriesDetectionWitness ==
    /\ pc = "_match_components"
    /\ Len(mvi_detections) = 2
    /\ mvi_detections[1].confidence # mvi_detections[2].confidence
    /\ mvi_detections[1].bbox # mvi_detections[2].bbox
    /\ \E k \in 1..Len(matching_results) :
          matching_results[k].status = "FOUND" /\ matched_idxs[k] = 2
    /\ \E k \in 1..Len(matching_results) : matching_results[k].status = "MISSING"

\* names of the MISSING critical results, in result order, from the k-th on
RECURSIVE MissingCriticalNamesFrom(_)
MissingCriticalNamesFrom(k) ==
    IF k > Len(matching_results) THEN <<>>
    ELSE (IF matching_results[k].critical /\ matching_results[k].status = "MISSING"
          THEN <<matching_results[k].name>> ELSE <<>>)
         \o MissingCriticalNamesFrom(k + 1)

\* C7: if a critical result is MISSING the verdict is FAIL, and the reason is
\* the 'Missing critical components' reason listing the names of the missing
\* critical components only, whatever else was found.
CriticalDominance ==
    pc = "process_mvi_result" =>
        ((\E k \in 1..Len(matching_results) :
              matching_results[k].critical /\ matching_results[k].status = "MISSING")
         => /\ ret.status = "FAIL"
            /\ ret.reason = <<"Missing critical components: ">>
                              \o Join(<<", ">>, MissingCriticalNamesFrom(1)))

\* a critical component MISSING while the other component is FOUND
CriticalDominanceWitness ==
    /\ pc = "process_mvi_result"
    /\ Len(matching_results) = 2
    /\ matching_results[1].status = "FOUND"
    /\ matching_results[2].status = "MISSING"
    /\ matching_results[2].critical
    /\ ret.found = 1

ErrorIffNoDefinitions ==
    pc = "process_mvi_result" =>
        LET undefined == ~\E i \in 1..Len(component_definitions) :
                              component_definitions[i].product_id = product_id
        IN  /\ ret.status = "ERROR" <=> undefined
            /\ undefined =>
                  /\ ret.reason = <<"No component definitions found for this product">>
                  /\ ret.found = 0
                  /\ ret.total = 0
                  /\ ret.found_percentage = FloatZero
                  /\ ret.missing_components = <<>>
                  /\ ret.missing_positions = <<>>
                  /\ ret.component_results = <<>>
                  /\ matching_results = <<>>
                  /\ matched_detection_indices = {}
                  /\ analysis = None

\* ERROR for a product without definitions while another product has some and
\* detections were supplied
ErrorIffNoDefinitionsWitness ==
    /\ pc = "process_mvi_result"
    /\ ret.status = "ERROR"
    /\ component_definitions # <<>>
    /\ mvi_detections # <<>>

\* C10: _analyze_results on an empty result list with zero expected components
\* yields ERROR, never PASS or FAIL.
EmptyAnalysisIsError ==
    (pc = "_analyze_results" /\ expected_components = <<>> /\ matching_results = <<>>)
        => analysis.status = "ERROR"

\* a detection the matcher cannot use: a key or a box coordinate is missing,
\* or a coordinate is not a number
Malformed(d) ==
    \/ ~({"class", "confidence", "bbox"} \subseteq DOMAIN d)
    \/ ~(BboxKeys \subseteq DOMAIN d.bbox)
    \/ Get(d.bbox, "non_numeric", {}) # {}

MalformedCount ==
    Cardinality({j \in 1..Len(mvi_detections) : Malformed(mvi_detections[j])})

\* C11: a call of _match_components on a detection list with a single
\* malformed detection never raises: it returns, and with one result per
\* expected component
NeverRaisesOnMalformed ==
    (pc \in {"raised", "_match_components"} /\ MalformedCount = 1)
        => /\ pc = "_match_components"
           /\ Len(matching_results) = Len(expected_components)

\* round(x): the nearest int, ties to the even one
FloatRound(x) ==
    IF x.m = <<>> \/ SignificandBits + x.e < 0 THEN 0
    ELSE IF x.e >= 0 THEN BitsInt(x.m \o [i \in 1..x.e |-> 0])
    ELSE
      LET whole == BitsInt(SubSeq(x.m, 1, SignificandBits + x.e))
          rest == SubSeq(x.m, SignificandBits + x.e + 1, SignificandBits)
          below == \E i \in 2..Len(rest) : rest[i] = 1
      IN  IF rest[1] = 1 /\ (below \/ whole % 2 = 1) THEN whole + 1 ELSE whole

FoundRows == {k \in 1..Len(matching_results) : matching_results[k].status = "FOUND"}

MissingRows == {k \in 1..Len(matching_results) : matching_results[k].status = "MISSING"}

CountsAgree ==
    /\ analysis.found_count = Cardinality(FoundRows)
    /\ analysis.total_count = Len(expected_components)
    /\ analysis.total_count = Len(matching_results)
    /\ (analysis.found_count = analysis.total_count <=> MissingRows = {})

\* C12 as stated: in every verdict the counts are those of the results,
\* found_count = total_count exactly when nothing is MISSING, and
\* found_percentage * total_count = found_count * 100.
CountsAndPercentage ==
    pc = "_analyze_results" =>
        /\ CountsAgree
        /\ FloatMul(analysis.found_percentage, analysis.total_count)
               = FloatOfInt(analysis.found_count * 100)

\* C12: in every verdict the counts are those of the results, found_count =
\* total_count exactly when nothing is MISSING, and found_percentage is the
\* float found_count / total_count * 100: it is 0 exactly when nothing is
\* found, 100.0 exactly when all of a non-empty list is found, and
\* found_percentage * total_count rounds to found_count * 100.
CountsAndRoundedPercentage ==
    pc = "_analyze_results" =>
        /\ CountsAgree
        /\ (analysis.found_percentage = FloatZero <=> analysis.found_count = 0)
        /\ (analysis.found_percentage = FloatOfInt(100)
               <=> (analysis.total_count > 0
                      /\ analysis.found_count = analysis.total_count))
        /\ FloatRound(FloatMul(analysis.found_percentage, analysis.total_count))
               = analysis.found_count * 100

\* a verdict of one found out of three has been computed
CountsAndRoundedPercentageWitness ==
    /\ pc = "_analyze_results"
    /\ analysis.found_count = 1
    /\ analysis.total_count = 3
    /\ Cardinality(MissingRows) = 2

Unselected == (1..Len(mvi_detections)) \ matched_detection_indices

\* C13: a call of _match_components on the detection list without any set of
\* detections that the original call selected for no expected component
\* returns the same results, and _analyze_results the same verdict on them.
UnselectedRemovable ==
    pc = "_match_components" =>
        LET removable(verdict) ==
                \A S \in (SUBSET Unselected) \ {{}} :
                    LET same(run) ==
                            /\ run.raised = ""
                            /\ run.results = matching_results
                            /\ _analyze_results(run.results, expected_components) = verdict
                    IN  same(MatchRun(expected_components, Without(mvi_detections, S)))
        IN  removable(_analyze_results(matching_results, expected_components))

\* a call has left unselected a detection that qualified for an expected
\* component and stands before a selected one
UnselectedRemovableWitness ==
    /\ pc = "_match_components"
    /\ \E j \in Unselected, k \in matched_detection_indices :
           /\ j < k
           /\ \E i \in 1..Len(expected_components) :
                  is_match(expected_components[i], mvi_detections[j])

SelectedNow == {matched_idxs[k] : k \in 1..Len(matched_idxs)} \ {NoIndex}

Degenerate(bbox) == bbox.width <= 0 \/ bbox.height <= 0

\* the unit cells a box covers
Cells(bbox) ==
    { <<i, j>> : i \in bbox.x..(bbox.x + bbox.width - 1),
                 j \in bbox.y..(bbox.y + bbox.height - 1) }

\* C15 as stated: _calculate_iou(a, a) is 1.0 for every box a with integer
\* x, y, width and height.
IouSelfIsOne ==
    (pc = "_calculate_iou" /\ call_args[1] = call_args[2])
        => (ret.d > 0 /\ ret.n = ret.d)

\* C15: _calculate_iou(a, a) is 1.0 for every box a with integer x, y and
\* positive width and height, and 0.0 for a box whose width or height is
\* zero or negative.
IouSelfIsOneUnlessDegenerate ==
    (pc = "_calculate_iou" /\ call_args[1] = call_args[2])
        => IF Degenerate(call_args[1])
           THEN ret.n = 0 /\ ret.d > 0
           ELSE ret.d > 0 /\ ret.n = ret.d

\* _calculate_iou has been called on a box of positive size and itself
IouSelfIsOneUnlessDegenerateWitness ==
    /\ pc = "_calculate_iou"
    /\ call_args[1] = call_args[2]
    /\ call_args[1].width > 1
    /\ call_args[1].height > 0
    /\ call_args[1].x > 0

\* C16: _calculate_iou(a, b) = _calculate_iou(b, a) for all boxes, degenerate
\* ones included.
IouSymmetric ==
    pc = "_calculate_iou" =>
        /\ ret.n * _calculate_iou(call_args[2], call_args[1]).d
               = _calculate_iou(call_args[2], call_args[1]).n * ret.d
        /\ ret.d > 0
        /\ _calculate_iou(call_args[2], call_args[1]).d > 0

\* _calculate_iou has been called on two overlapping boxes of different area
IouSymmetricWitness ==
    /\ pc = "_calculate_iou"
    /\ Cells(call_args[1]) \cap Cells(call_args[2]) # {}
    /\ Cardinality(Cells(call_args[1])) < Cardinality(Cells(call_args[2]))
    /\ ret.n > 0

\* C17: _calculate_iou returns a value in [0, 1] for all boxes, without a
\* division by zero; it returns 0.0 when the boxes share no area (touching
\* edges or corners included) and when either box has width <= 0 or
\* height <= 0.
IouRange ==
    pc = "_calculate_iou" =>
        /\ ret.d > 0
        /\ 0 <= ret.n
        /\ ret.n <= ret.d
        /\ (Degenerate(call_args[1]) \/ Degenerate(call_args[2])) => ret.n = 0
        /\ Cells(call_args[1]) \cap Cells(call_args[2]) = {} => ret.n = 0

\* _calculate_iou has been called on two boxes of positive size that touch at
\* a corner only
IouRangeWitness ==
    /\ pc = "_calculate_iou"
    /\ ~Degenerate(call_args[1])
    /\ ~Degenerate(call_args[2])
    /\ call_args[1].x + call_args[1].width = call_args[2].x
    /\ call_args[1].y + call_args[1].height = call_args[2].y

\* C18: on the three screws expected at left, center and right and the two
\* detections near the left one, _match_components finds left and reports
\* center and right MISSING.
ScrewEdgeCase ==
    (/\ pc = "_match_components"
     /\ expected_components = ScrewExpected
     /\ mvi_detections = EdgeDetections)
        => /\ Len(matching_results) = 3
           /\ matching_results[1].position = Left
           /\ matching_results[1].status = "FOUND"
           /\ matching_results[2].position = Center
           /\ matching_results[2].status = "MISSING"
           /\ matching_results[3].position = Right
           /\ matching_results[3].status = "MISSING"
           /\ Cardinality(FoundRows) = 1

\* _match_components has returned from the call of test 1C
ScrewEdgeCaseWitness ==
    /\ pc = "_match_components"
    /\ expected_components = ScrewExpected
    /\ mvi_detections = EdgeDetections
    /\ matched_detection_indices # {}

\* the place of the MISSING row i among the MISSING rows
MissingRank(i) == Cardinality({j \in MissingRows : j <= i})

\* C19: missing_components holds the names of the MISSING results in expected
\* order and nothing else; missing_positions holds, in the same order, the
\* name followed by " (position)" when the position label is not empty and the
\* bare name otherwise.  With pig and monk detected and peacock not, the
\* verdict is FAIL, 2 found of 3, missing_components = [peacock].
MissingListsExact ==
    pc = "_analyze_results" =>
        /\ Len(analysis.missing_components) = Cardinality(MissingRows)
        /\ Len(analysis.missing_positions) = Cardinality(MissingRows)
        /\ \A i \in MissingRows :
               /\ analysis.missing_components[MissingRank(i)] = matching_results[i].name
               /\ analysis.missing_positions[MissingRank(i)] =
                      IF matching_results[i].position # <<>>
                      THEN matching_results[i].name \o <<" (">>
                               \o matching_results[i].position \o <<")">>
                      ELSE matching_results[i].name
        /\ (expected_components = AnimalExpected /\ mvi_detections = AnimalDetectionsFail)
               => /\ analysis.status = "FAIL"
                  /\ analysis.found_count = 2
                  /\ analysis.total_count = 3
                  /\ analysis.missing_components = <<Peacock>>
                  /\ analysis.missing_positions = <<Peacock \o <<" (">> \o Right \o <<")">>>>

\* a verdict has been computed on results where a MISSING row with a position
\* label follows a FOUND row and precedes a MISSING row without a label
MissingListsExactWitness ==
    /\ pc = "_analyze_results"
    /\ \E f \in FoundRows, i \in MissingRows, j \in MissingRows :
           /\ f < i
           /\ i < j
           /\ matching_results[i].position # <<>>
           /\ matching_results[j].position = <<>>

\* the verdict of the FAIL case of test_mvi_integration has been computed
MissingListsAnimalWitness ==
    /\ pc = "_analyze_results"
    /\ expected_components = AnimalExpected
    /\ mvi_detections = AnimalDetectionsFail

\* confidences, in hundredths, given to the detections and asked by the
\* expected components of the run compared with
ConfidenceValues == {0, 100}

WithConfidence(detections, cs) ==
    [j \in 1..Len(detections) |-> [detections[j] EXCEPT !.confidence = cs[j]]]

WithMinConfidence(expected_list, ms) ==
    [i \in 1..Len(expected_list) |->
        [key \in DOMAIN expected_list[i] \cup {"min_confidence"} |->
            IF key = "min_confidence" THEN ms[i] ELSE expected_list[i][key]]]

Statuses(results) == [k \in 1..Len(results) |-> results[k].status]

StatusesOf(run) == [k \in 1..Len(run.results) |-> run.results[k].status]

\* detection d passes the class rule and the IoU or the distance test of the
\* expected component e
Qualifies(e, d) ==
    /\ ClassRule(e.name, d.class)
    /\ (IouQualifies(e, d) \/ DistanceQualifies(e, d))

\* C21: the matcher commits the choice of each expected component in list
\* order: the selections of the first k components are those of a call with
\* only these k components, whatever follows them in the list. The assignment
\* is therefore not globally optimal (the witness is a call that reports a
\* component MISSING although a one-to-one assignment exists and the other
\* order finds both).
GreedyInListOrder ==
    Matched =>
        \A k \in 0..(Len(expected_components) - 1) :
            LET agrees(run) ==
                    /\ run.raised = ""
                    /\ run.matched_idxs = SubSeq(matched_idxs, 1, k)
                    /\ StatusesOf(run) = SubSeq(StatusesOf([results |-> matching_results]), 1, k)
            IN  agrees(MatchRun(SubSeq(expected_components, 1, k), mvi_detections))

\* two expected components of the same name and two detections: one component
\* is reported MISSING, a one-to-one assignment of qualifying detections
\* exists, and the list in the other order finds both
GreedyInListOrderWitness ==
    /\ pc = "_match_components"
    /\ Len(expected_components) = 2
    /\ Len(mvi_detections) = 2
    /\ expected_components[1].name = expected_components[2].name
    /\ \E k \in 1..2 : matching_results[k].status = "MISSING"
    /\ \E p \in {<<1, 2>>, <<2, 1>>} :
          \A k \in 1..2 : Qualifies(expected_components[k], mvi_detections[p[k]])
    /\ LET other == MatchRun(Reverse(expected_components), mvi_detections)
       IN  \A k \in 1..2 : other.results[k].status = "FOUND"

\* C22: after delete_product(p) returns, get_product(p) returns None and
\* get_product_components(p) returns the empty list.
DeleteProductRemovesComponents ==
    pc = "delete_product" =>
        /\ get_product(call_args[1]) = None
        /\ get_product_components(call_args[1]) = <<>>

\* C23: the number of FOUND results never exceeds the number of detections
\* supplied nor the number of expected components, and _analyze_results
\* reports that number as found_count.
FoundCountBounded ==
    Matched =>
        LET found == { k \in 1..Len(matching_results) :
                         matching_results[k].status = "FOUND" }
        IN  /\ Cardinality(found) <= Len(mvi_detections)
            /\ Cardinality(found) <= Len(expected_components)
            /\ analysis # None =>
                   /\ analysis.found_count = Cardinality(found)
                   /\ analysis.found_count
                          <= Min(Len(expected_components), Len(mvi_detections))

\* fewer detections than expected components: the one detection qualifies for
\* both components, one is FOUND and found_count is 1
FoundCountBoundedWitness ==
    /\ pc = "_analyze_results"
    /\ Len(expected_components) = 2
    /\ Len(mvi_detections) = 1
    /\ \A k \in 1..2 : Qualifies(expected_components[k], mvi_detections[1])
    /\ analysis.found_count = 1
    /\ matching_results[2].status = "MISSING"

\* process_mvi_result has returned an annotated image
Annotated == pc = "process_mvi_result" /\ matching_results # <<>>

\* the cv2.rectangle calls made on the annotated image, in order
Rectangles == SelectSeq(images[ret.annotated_image], LAMBDA c : c.call = "rectangle")

\* the corners of a box as cv2.rectangle takes them
Corners(bbox) == <<<<bbox.x, bbox.y>>, <<bbox.x + bbox.width, bbox.y + bbox.height>>>>

Ledger(pid) ==
    LET entries == SelectSeq(observed, LAMBDA entry : entry.product_id = pid)
    IN  [i \in 1..Len(entries) |-> entries[i].component]

\* C26: for a product of the store, get_product_components returns exactly
\* the components added to it and not since deleted, in the order they were
\* added, which is ascending id; no component of another product is among
\* them; and the matcher yields its results in this order.
ComponentsInInsertionOrder ==
    \A pid \in ProductIds :
        get_product(pid) # None =>
            LET components == get_product_components(pid)
            IN  /\ components = Ledger(pid)
                /\ \A i, j \in 1..Len(components) :
                      i < j => components[i].id < components[j].id
                /\ \A i \in 1..Len(components) :
                      \A row \in 1..Len(component_definitions) :
                          component_definitions[row].id = components[i].id
                              => component_definitions[row].product_id = pid
                /\ LET run == MatchRun(components, <<>>)
                   IN  \A i \in 1..Len(components) :
                           run.results[i].component_def_id = components[i].id

\* a product with two components, listed in the order they were added, with
\* an id between theirs that went to another product or to a component
\* deleted since
ComponentsInInsertionOrderWitness ==
    \E pid \in ProductIds :
        /\ get_product(pid) # None
        /\ Len(get_product_components(pid)) = 2
        /\ get_product_components(pid)[2].id > get_product_components(pid)[1].id + 1

\* the rows of products that carry the name
Named(rows, name) == {i \in 1..Len(rows) : rows[i].name = name}

\* what a call of create_product(name, pass_threshold) that has just returned
\* did to the table
CreateProductStep ==
    pc' = "create_product" =>
        LET name == call_args'[1]
            pass_threshold == call_args'[2]
            existing == Named(products, name)
        IN  /\ existing # {} =>
                  /\ products' = products
                  /\ \E i \in existing : ret' = products[i].id
            /\ existing = {} =>
                  /\ products' = Append(products,
                         [id |-> ret', name |-> name, pass_threshold |-> pass_threshold])
                  /\ \A i \in 1..Len(products) : products[i].id # ret'
            /\ (pc = "create_product" /\ call_args[1] = name) => ret' = ret

\* C27: product names stay unique: no two rows of products carry one name;
\* create_product with a name that exists inserts nothing, leaves the table
\* as it was and returns the id of the existing product, so that two calls in
\* a row with one name return one id; with a new name it appends one row
\* under a fresh id.
ProductNamesUnique ==
    /\ [](\A i, j \in 1..Len(products) :
             products[i].name = products[j].name => i = j)
    /\ [][CreateProductStep]_<<pc, call_args, products, ret>>

\* create_product has been called with the name of a product that exists and
\* another pass_threshold; the product keeps its own, and a second product is
\* in the table
ProductNamesUniqueWitness ==
    /\ pc = "create_product"
    /\ Len(products) = 2
    /\ \E i \in Named(products, call_args[1]) :
          /\ products[i].pass_threshold # call_args[2]
          /\ products[i].id = ret
          /\ ret < sqlite_sequence.products

\* the run of _match_components on the detection list with d added at its end
RunWith(d) == MatchRun(expected_components, Append(mvi_detections, d))

\* C28: adding a detection to the end of the detection list never turns a
\* FOUND result into MISSING: every component FOUND with the list is FOUND
\* with the longer list, found_count does not decrease and PASS stays PASS.
MoreDetectionsNeverLose ==
    pc = "_match_components" =>
        LET never_loses(before) ==
                \A d \in OrderDetections :
                    LET kept(more) ==
                            LET verdict(after) ==
                                    /\ after.found_count >= before.found_count
                                    /\ before.status = "PASS" => after.status = "PASS"
                            IN  /\ more.raised = ""
                                /\ \A k \in 1..Len(matching_results) :
                                      matching_results[k].status = "FOUND"
                                          => more.results[k].status = "FOUND"
                                /\ verdict(_analyze_results(more.results,
                                                            expected_components))
                    IN  kept(RunWith(d))
        IN  never_loses(_analyze_results(matching_results, expected_components))

\* the added detection is taken by a component that was FOUND with another
\* one, which a component MISSING before then takes
MoreDetectionsNeverLoseWitness ==
    /\ pc = "_match_components"
    /\ \E d \in OrderDetections :
          \E j, k \in 1..Len(matching_results) :
              /\ matching_results[j].status = "FOUND"
              /\ RunWith(d).matched_idxs[j] = Len(mvi_detections) + 1
              /\ matching_results[k].status = "MISSING"
              /\ RunWith(d).matched_idxs[k] = matched_idxs[j]

\* detections a and b have the same score for the expected component e: the
\* same IoU when both are over min_iou, the same centre distance when neither
\* is and both are within the tolerance
TieScore(e, a, b) ==
    LET ia == _calculate_iou(e.roi, a.bbox)
        ib == _calculate_iou(e.roi, b.bbox)
    IN  IF IouQualifies(e, a) /\ IouQualifies(e, b)
        THEN ia.n * ib.d = ib.n * ia.d
        ELSE /\ ~IouQualifies(e, a) /\ ~IouQualifies(e, b)
             /\ DistanceQualifies(e, a) /\ DistanceQualifies(e, b)
             /\ CentreQ(e, a) = CentreQ(e, b)

\* the candidates of the k-th component that tie with the detection selected
\* for it
TiedWithSelected(k) ==
    { i \in Candidates(k) :
        /\ Qualifies(expected_components[k], mvi_detections[i])
        /\ TieScore(expected_components[k], mvi_detections[i],
                    mvi_detections[matched_idxs[k]]) }

\* C29: among the not-yet-consumed candidates that tie on the best score of
\* an expected component, the one of the lowest index in the detection list
\* is selected.
LowestIndexOnTie ==
    pc = "_match_components" =>
        \A k \in 1..Len(matched_idxs) :
            matched_idxs[k] # NoIndex =>
                /\ matched_idxs[k] \in TiedWithSelected(k)
                /\ \A i \in TiedWithSelected(k) : matched_idxs[k] <= i

\* a component for which two different detections tie, the first of them
\* selected
LowestIndexOnTieWitness ==
    /\ pc = "_match_components"
    /\ \E k \in 1..Len(matched_idxs) :
          /\ matched_idxs[k] # NoIndex
          /\ \E i \in TiedWithSelected(k) :
                /\ i > matched_idxs[k]
                /\ mvi_detections[i] # mvi_detections[matched_idxs[k]]

\* str a occurs in str b and is not all of it
ProperPart(a, b) == a # b /\ IsSubstring(a, b)

\* the label of detection d is the empty str, or a proper part of the name of
\* e, or the name is a proper part of the label (case folded)
LooseLabel(e, d) ==
    \/ d.class = <<>>
    \/ ProperPart(lower(d.class), lower(e.name))
    \/ ProperPart(lower(e.name), lower(d.class))

\* C30: a detection whose class label is the empty str, or a proper substring
\* or superstring of the expected name, is a candidate: when it is not yet
\* consumed and is over min_iou or within the tolerance, the component is
\* FOUND, and when it is the one selected it is consumed (in
\* matched_detection_indices, and selected for no other component).
LooseLabelIsCandidate ==
    pc = "_match_components" =>
        \A k \in 1..Len(matched_idxs) :
            \A i \in (1..Len(mvi_detections)) \ ConsumedBefore(k) :
                (/\ LooseLabel(expected_components[k], mvi_detections[i])
                 /\ \/ IouQualifies(expected_components[k], mvi_detections[i])
                    \/ DistanceQualifies(expected_components[k], mvi_detections[i]))
                    => /\ matching_results[k].status = "FOUND"
                       /\ (\A other \in (1..Len(mvi_detections)) \ ConsumedBefore(k) :
                              other = i
                              \/ ~Qualifies(expected_components[k], mvi_detections[other]))
                              => matched_idxs[k] = i
                       /\ matched_idxs[k] = i =>
                              /\ i \in matched_detection_indices
                              /\ matching_results[k].detected_bbox = mvi_detections[i].bbox
                              /\ \A j \in 1..Len(matched_idxs) :
                                    j # k => matched_idxs[j] # i

\* one component is FOUND through a detection without a class label, another
\* through a detection whose label is a proper part of its name or contains it
LooseLabelIsCandidateWitness ==
    /\ pc = "_match_components"
    /\ \E k, j \in 1..Len(matched_idxs) :
          /\ matched_idxs[k] # NoIndex
          /\ mvi_detections[matched_idxs[k]].class = <<>>
          /\ matched_idxs[j] # NoIndex
          /\ mvi_detections[matched_idxs[j]].class # <<>>
          /\ LooseLabel(expected_components[j], mvi_detections[matched_idxs[j]])
          /\ matched_detection_indices = {matched_idxs[k], matched_idxs[j]}

====
